---- MODULE Spec2Model ----
(***************************************************************************)
(* A model of pip_package_manager (src/main.py): the PackageCache store,   *)
(* the concurrent aggregation done by PackageManager.display_packages on   *)
(* a ThreadPoolExecutor, and the menu loop of main / package_options.      *)
(*                                                                         *)
(* Time is counted in ticks of 30 minutes.  An Optional value is           *)
(* a sequence of length 0 (None) or 1.                                     *)
(* The cache file is a sequence of JSON tokens: one token per dictionary   *)
(* entry, closed by an end token.                                          *)
(*                                                                         *)
(* MAX_WORKERS is 20 in the program.  The model scales the pool with the   *)
(* number of installed distributions and covers both regimes: a pool as    *)
(* large as the batch, in which every call runs at once, and a pool one    *)
(* smaller than the batch, in which a call waits in the queue.             *)
(***************************************************************************)
EXTENDS Integers, Sequences, FiniteSets, TLC

\* ------------------------------------------------------------------ bounds
\* Last tick of the clock.
MaxTime == 3
\* Number of distributions installed in the environments in which one
\* iteration of the loop of main is followed.
NumPackages == 2
\* Number of distributions installed in the environment in which
\* MaxRefresh iterations of the loop of main are followed.
ShellPackages == 1
\* Number of iterations of the loop of main followed in that environment.
MaxRefresh == 2

\* CACHE_EXPIRY = timedelta(hours=1), in ticks of 30 minutes.
CACHE_EXPIRY == 2

AllNames == <<"a", "b", "c", "d", "e">>
Names == {AllNames[i] : i \in 1..Len(AllNames)}

None == <<>>
Some(x) == <<x>>

\* ------------------------------------------------------------- environment
\* What `pip index versions <name>` prints after "Available versions: ":
\* the versions of the package, newest first.
AvailableVersions(package_name) == <<"2.0", "1.9">>

\* importlib.metadata.distributions() when the program starts, with n
\* distributions installed: the last one is up to date, the others are not.
InitialInstalled(n) ==
    [i \in 1..n |->
        [name |-> AllNames[i], version |-> IF i = n THEN "2.0" ELSE "1.9"]]

\* --------------------------------------------------------- dict and JSON
\* A Python dict: a sequence of entries in insertion order, keys unique.
Keys(d) == {d[i].key : i \in 1..Len(d)}
IndexOf(d, k) == CHOOSE i \in 1..Len(d) : d[i].key = k
DictGet(d, k) == d[IndexOf(d, k)].value
DictSetOnly(d, k, v) == <<[key |-> k, value |-> v]>>
DictSet(d, k, v) ==
    IF k \in Keys(d)
    THEN [d EXCEPT ![IndexOf(d, k)].value = v]
    ELSE Append(d, [key |-> k, value |-> v])

\* datetime.isoformat / datetime.fromisoformat on a tick count.
isoformat(t) == [hour |-> t \div 2, minute |-> (t % 2) * 30]
fromisoformat(s) == s.hour * 2 + s.minute \div 30

\* JSON tokens written by json.dump for a dict.
EntryToken(e) == [tok |-> "entry", key |-> e.key, value |-> e.value]
EndToken == [tok |-> "end", key |-> "", value |-> None]

RECURSIVE json_dumps(_)
json_dumps(d) ==
    IF Len(d) = 0 THEN <<EndToken>>
    ELSE <<EntryToken(Head(d))>> \o json_dumps(Tail(d))

\* json.load accepts exactly the output of a complete dump.
WellFormed(data) ==
    /\ Len(data) >= 1
    /\ data[Len(data)] = EndToken
    /\ \A k \in 1..(Len(data) - 1) : data[k].tok = "entry"
    /\ \A k, l \in 1..(Len(data) - 1) : data[k].key = data[l].key => k = l

json_load(data) ==
    [k \in 1..(Len(data) - 1) |-> [key |-> data[k].key, value |-> data[k].value]]

\* The file object of save buffers what json.dump writes (8192 bytes, more
\* than the dicts of the model take) and writes it when it is closed, at
\* its own offset 0: over the head of what the file holds by then.
FileWriteUnflushed(data, text) == data
FileWrite(data, text) ==
    [k \in 1..(IF Len(data) >= Len(text) THEN Len(data) ELSE Len(text)) |->
        IF k <= Len(text) THEN text[k] ELSE data[k]]

NoFile == [exists |-> FALSE, data |-> <<>>]

\* ------------------------------------------------------------ PackageCache
\* PackageCache.load: the parsed file, or {} when there is no file.
load(f) == IF f.exists THEN json_load(f.data) ELSE <<>>

\* PackageCache.get at time t.
getReversed(c, package_name, t) ==
    IF package_name \in Keys(c)
    THEN LET cached_time == fromisoformat(DictGet(c, package_name).timestamp)
         IN  IF CACHE_EXPIRY < t - cached_time
             THEN Some(DictGet(c, package_name))
             ELSE None
    ELSE None
getInclusive(c, package_name, t) ==
    IF package_name \in Keys(c)
    THEN LET cached_time == fromisoformat(DictGet(c, package_name).timestamp)
         IN  IF t - cached_time <= CACHE_EXPIRY
             THEN Some(DictGet(c, package_name))
             ELSE None
    ELSE None
get(c, package_name, t) ==
    IF package_name \in Keys(c)
    THEN LET cached_time == fromisoformat(DictGet(c, package_name).timestamp)
         IN  IF t - cached_time < CACHE_EXPIRY
             THEN Some(DictGet(c, package_name))
             ELSE None
    ELSE None

\* PackageCache.set, lines 62-63: stamp the info and store it.
StampDate(info, t) ==
    [latest_version |-> info.latest_version,
     all_versions   |-> info.all_versions,
     timestamp      |-> isoformat(t - (t % 48))]
Stamp(info, t) ==
    [latest_version |-> info.latest_version,
     all_versions   |-> info.all_versions,
     timestamp      |-> isoformat(t)]

\* ---------------------------------------------------------- PackageManager
\* get_pypi_info: the parsed output of the registry command, or None when
\* the command exits with a failure status.
get_pypi_infoPlaceholder(package_name, ok) ==
    IF ok
    THEN LET versions == AvailableVersions(package_name)
         IN  Some([latest_version |-> versions[1], all_versions |-> versions])
    ELSE Some([latest_version |-> "", all_versions |-> <<>>])
get_pypi_info(package_name, ok) ==
    IF ok
    THEN LET versions == AvailableVersions(package_name)
         IN  Some([latest_version |-> versions[1], all_versions |-> versions])
    ELSE None

\* get_package_info, lines 96-97.
ResultTupleAssumeCurrent(package, pypi_info) ==
    [name      |-> package.name,
     installed |-> package.version,
     latest    |-> IF pypi_info # None THEN Some(pypi_info[1].latest_version)
                   ELSE Some(package.version)]
ResultTuple(package, pypi_info) ==
    [name      |-> package.name,
     installed |-> package.version,
     latest    |-> IF pypi_info # None THEN Some(pypi_info[1].latest_version)
                   ELSE None]

\* list(executor.map(...)): the results in the order of submission.
CollectAsCompleted(res, order) == [k \in 1..Len(order) |-> res[order[k]][1]]
Collect(res, order) == [k \in 1..Len(res) |-> res[k][1]]

\* display_packages, lines 111-121: one row per result.
MenuRow(r) ==
    [name      |-> r.name,
     installed |-> r.installed,
     arrow     |-> IF r.latest # None /\ r.latest[1] # r.installed
                   THEN r.latest ELSE None]
QuitRow == [name |-> "Quit", installed |-> "", arrow |-> None]

\* A selection: the menu ("main", "options" or "versions") and the label
\* of the selected row; NoPick when nothing was selected in the last step
\* of the shell.
Pick(menu, label) == [menu |-> menu, label |-> label]
NoPick == Pick("", "")

\* ------------------------------------------------------------------- state
VARIABLES
    now,              \* datetime.now(), in ticks
    installed,        \* the installed distributions, in enumeration order
    cache,            \* PackageCache.cache
    file,             \* package_cache.json
    max_workers,      \* MAX_WORKERS, scaled to the number of distributions
    mpc,              \* position of the main thread
    packages,         \* main: the snapshot taken at line 239
    tpc,              \* position of each get_package_info call of the pool
    pypi_info,        \* get_package_info: the local pypi_info of each call
    iter,             \* save: the dict iterator of json.dump of each call
    buf,              \* save: text written to f and not yet flushed
    results,          \* the result of the future of each call
    completed,        \* the calls in the order in which they completed
    package_info,     \* display_packages: package_info, line 104
    menu_items,       \* main: menu_items
    selected_package, \* main: selected_package
    versions,         \* downgrade_package: versions
    pip,              \* the installer subprocesses that are running
    budget,           \* the number of iterations of the loop of main still followed
    stamped,          \* history: per name, the time of its last set
    calls,            \* history: the calls of this batch that ran the registry command
    validAtGet,       \* history: the calls whose entry was fresh when they read the cache
    outcome,          \* history: how each call resolved its package
    enrichStart,      \* history: the time at which this batch was submitted
    lastReturn,       \* history: how package_options returned last
    enumerated,       \* history: line 239 ran since package_options returned
    enriched,         \* history: line 240 returned since package_options returned
    exits,            \* history: the calls whose registry command exited with a failure
    picked,           \* history: the label of the row selected last in a menu
    failed,           \* history: what failed since the last selection in a menu
    acked             \* history: the user pressed Enter since that failure

cacheVars == <<cache, file, stamped>>
taskVars  == <<tpc, pypi_info, iter, buf, results, completed, calls,
               validAtGet, outcome, exits>>
menuVars  == <<pip, picked, failed, acked>>
shellVars == <<max_workers, mpc, packages, package_info, menu_items,
               selected_package,
               versions, budget, enrichStart, lastReturn, enumerated,
               enriched, menuVars>>
vars == <<now, installed, cacheVars, taskVars, shellVars>>

Running == {"fetch", "set", "open", "dump"}
Tasks == DOMAIN tpc
RunningTasks == {i \in Tasks : tpc[i] \in Running}

\* ThreadPoolExecutor: a thread is free to take a call from the queue.
HasFreeThreadLax(running, cap) == Cardinality(running) <= cap
HasFreeThread(running, cap) == Cardinality(running) < cap

\* Leaving the with block at line 103 is executor.shutdown(wait=True): it
\* returns when no call is running in positions t.
JoinedNoWait(t) == TRUE
Joined(t) == \A i \in DOMAIN t : t[i] \notin Running

\* The cache file left by an earlier run of the program: none, or one
\* holding the entry of the first package, written at tick 0.
EarlierInfo == Stamp(get_pypi_info(AllNames[1], TRUE)[1], 0)
EarlierFile ==
    [exists |-> TRUE,
     data   |-> json_dumps(<<[key |-> AllNames[1], value |-> EarlierInfo]>>)]

\* main, line 235: PackageManager() constructs the cache from the file,
\* which is one of files.
InitWith(count, pool, iterations, files) ==
    /\ now = 0
    /\ installed = InitialInstalled(count)
    /\ max_workers = pool
    /\ budget = iterations
    /\ file \in files
    /\ cache = load(file)
    /\ stamped = [name \in Names |->
                    IF name \in Keys(cache) THEN Some(0) ELSE None]
    /\ mpc = "loop"
    /\ packages = <<>>
    /\ tpc = <<>> /\ pypi_info = <<>> /\ iter = <<>> /\ buf = <<>>
    /\ results = <<>> /\ completed = <<>>
    /\ calls = {} /\ validAtGet = {} /\ outcome = <<>> /\ exits = {}
    /\ pip = {} /\ picked = NoPick /\ failed = "none" /\ acked = FALSE
    /\ package_info = <<>>
    /\ menu_items = <<>>
    /\ selected_package = ""
    /\ versions = <<>>
    /\ enrichStart = 0
    /\ lastReturn = "none"
    /\ enumerated = FALSE
    /\ enriched = FALSE

\* Three environments: a pool as large as the batch, started on the cache
\* file of an earlier run; a pool one smaller than the batch, started with
\* or without that file; and the menu loop followed for MaxRefresh
\* iterations, started without a cache file.
Init ==
    \/ InitWith(NumPackages, NumPackages, 1, {EarlierFile})
    \/ InitWith(NumPackages, NumPackages - 1, 1, {NoFile, EarlierFile})
    \/ InitWith(ShellPackages, ShellPackages, MaxRefresh, {NoFile})

\* Time passes while the program runs or waits for the user.
Tick ==
    /\ now < MaxTime
    /\ mpc \notin {"quit", "crashed"}
    /\ now' = now + 1
    /\ UNCHANGED <<installed, cacheVars, taskVars, shellVars>>

\* ------------------------------------------------- display_packages, pool
\* main, lines 238-240 and display_packages, lines 103-104: take the
\* snapshot and submit one get_package_info call per package.
Enumerate ==
    /\ mpc = "loop"
    /\ budget > 0
    /\ budget' = budget - 1
    /\ packages' = installed
    /\ tpc' = [i \in 1..Len(installed) |-> "queued"]
    /\ pypi_info' = [i \in 1..Len(installed) |-> None]
    /\ iter' = [i \in 1..Len(installed) |-> [size |-> 0, pos |-> 0]]
    /\ buf' = [i \in 1..Len(installed) |-> <<>>]
    /\ results' = [i \in 1..Len(installed) |-> None]
    /\ outcome' = [i \in 1..Len(installed) |-> "none"]
    /\ completed' = <<>>
    /\ calls' = {}
    /\ validAtGet' = {}
    /\ exits' = {}
    /\ enrichStart' = now
    /\ enumerated' = TRUE
    /\ picked' = NoPick
    /\ mpc' = "enrich"
    /\ UNCHANGED <<max_workers, now, installed, cacheVars, package_info,
                   menu_items, selected_package, versions, lastReturn,
                   enriched, pip, failed, acked>>

\* get_package_info returns: lines 96-97.
Finish(i, info, how) ==
    /\ results' = [results EXCEPT ![i] = Some(ResultTuple(packages[i], info))]
    /\ completed' = Append(completed, i)
    /\ outcome' = [outcome EXCEPT ![i] = how]

\* A pool thread takes the next call from the work queue and runs
\* get_package_info up to line 91: it reads the cache.
CacheGet(i) ==
    /\ tpc[i] = "queued"
    /\ \A j \in Tasks : j < i => tpc[j] # "queued"
    /\ HasFreeThread(RunningTasks, max_workers)
    /\ LET name == packages[i].name
           hit  == get(cache, name, now)
       IN  /\ validAtGet' =
                IF stamped[name] # None /\ now - stamped[name][1] < CACHE_EXPIRY
                THEN validAtGet \cup {i} ELSE validAtGet
           /\ IF hit # None
              THEN /\ Finish(i, hit, "hit")
                   /\ tpc' = [tpc EXCEPT ![i] = "done"]
              ELSE /\ tpc' = [tpc EXCEPT ![i] = "fetch"]
                   /\ UNCHANGED <<results, completed, outcome>>
    /\ UNCHANGED <<now, installed, cacheVars, shellVars, pypi_info, iter, buf,
                   calls, exits>>

\* get_package_info, lines 92-93: run the registry command.
Fetch(i) ==
    /\ tpc[i] = "fetch"
    /\ calls' = calls \cup {i}
    /\ \E ok \in BOOLEAN :
         LET info == get_pypi_info(packages[i].name, ok)
         IN  /\ exits' = IF ok THEN exits ELSE exits \cup {i}
             /\ IF info # None
                THEN /\ pypi_info' = [pypi_info EXCEPT ![i] = info]
                     /\ tpc' = [tpc EXCEPT ![i] = "set"]
                     /\ UNCHANGED <<results, completed, outcome>>
                ELSE /\ Finish(i, None, "failed")
                     /\ tpc' = [tpc EXCEPT ![i] = "done"]
                     /\ UNCHANGED pypi_info
    /\ UNCHANGED <<now, installed, cacheVars, shellVars, iter, buf, validAtGet>>

\* PackageCache.set, lines 62-63.
CacheSet(i) ==
    /\ tpc[i] = "set"
    /\ LET name == packages[i].name
       IN  /\ cache' = DictSet(cache, name, Stamp(pypi_info[i][1], now))
           /\ stamped' = [stamped EXCEPT ![name] = Some(now)]
    /\ tpc' = [tpc EXCEPT ![i] = "open"]
    /\ UNCHANGED <<now, installed, file, shellVars, pypi_info, iter, buf,
                   results, completed, calls, validAtGet, outcome, exits>>

\* PackageCache.save, line 49 and the start of json.dump: open(..., 'w')
\* truncates the file; the encoder starts to iterate over the dict.
SaveOpen(i) ==
    /\ tpc[i] = "open"
    /\ file' = [exists |-> TRUE, data |-> <<>>]
    /\ buf' = [buf EXCEPT ![i] = <<>>]
    /\ iter' = [iter EXCEPT ![i] = [size |-> Len(cache), pos |-> 0]]
    /\ tpc' = [tpc EXCEPT ![i] = "dump"]
    /\ UNCHANGED <<now, installed, cache, stamped, shellVars, pypi_info,
                   results, completed, calls, validAtGet, outcome, exits>>

\* PackageCache.save, line 50: one step of json.dump.  The dict iterator
\* raises RuntimeError when the dict changed size since it was created;
\* leaving the with block closes f, which writes what is buffered.  When
\* the iterator is exhausted the dump is complete, f is closed, set
\* returns and get_package_info returns its tuple.  The iterator and the
\* file object end with save.
SaveStep(i) ==
    /\ tpc[i] = "dump"
    /\ IF Len(cache) # iter[i].size
       THEN /\ file' = [file EXCEPT !.data = FileWrite(@, buf[i])]
            /\ tpc' = [tpc EXCEPT ![i] = "raised"]
            /\ buf' = [buf EXCEPT ![i] = <<>>]
            /\ iter' = [iter EXCEPT ![i] = [size |-> 0, pos |-> 0]]
            /\ UNCHANGED <<results, completed, outcome>>
       ELSE IF iter[i].pos < iter[i].size
       THEN /\ buf' = [buf EXCEPT
                         ![i] = Append(@, EntryToken(cache[iter[i].pos + 1]))]
            /\ iter' = [iter EXCEPT ![i].pos = @ + 1]
            /\ UNCHANGED <<file, tpc, results, completed, outcome>>
       ELSE /\ file' = [file EXCEPT
                          !.data = FileWrite(@, Append(buf[i], EndToken))]
            /\ buf' = [buf EXCEPT ![i] = <<>>]
            /\ iter' = [iter EXCEPT ![i] = [size |-> 0, pos |-> 0]]
            /\ Finish(i, pypi_info[i], "fetched")
            /\ tpc' = [tpc EXCEPT ![i] = "done"]
    /\ UNCHANGED <<now, installed, cache, stamped, shellVars, pypi_info, calls,
                   validAtGet, exits>>

\* display_packages, lines 104-124 and main, line 241: every call returned.
\* max() of an empty sequence raises ValueError at line 107.
Join ==
    /\ mpc = "enrich"
    /\ \A i \in Tasks : tpc[i] = "done"
    /\ package_info' = Collect(results, completed)
    /\ enriched' = TRUE
    /\ IF Len(packages) = 0
       THEN /\ mpc' = "crashed"
            /\ UNCHANGED menu_items
       ELSE /\ mpc' = "main_menu"
            /\ menu_items' =
                 [k \in 1..Len(packages) |-> MenuRow(package_info'[k])]
                    \o <<QuitRow>>
    /\ UNCHANGED <<max_workers, now, installed, cacheVars, taskVars, packages,
                   selected_package, versions, budget, enrichStart,
                   lastReturn, enumerated, menuVars>>

\* Line 104: the result iterator of executor.map re-raises the exception of
\* the first call, in order of submission, that raised, and cancels the
\* calls that have not started.
Abort ==
    /\ mpc = "enrich"
    /\ \E i \in Tasks :
         /\ tpc[i] = "raised"
         /\ \A j \in Tasks : j < i => tpc[j] = "done"
    /\ tpc' = [i \in Tasks |-> IF tpc[i] = "queued" THEN "cancelled" ELSE tpc[i]]
    /\ mpc' = "raising"
    /\ UNCHANGED <<max_workers, now, installed, cacheVars, pypi_info, iter, buf,
                   results, completed, calls, validAtGet, outcome, exits,
                   packages, package_info, menu_items, selected_package,
                   versions, budget, enrichStart, lastReturn, enumerated,
                   enriched, menuVars>>

\* Leaving the with block at line 103 waits for the calls that are running;
\* the exception then leaves display_packages and main.
Crash ==
    /\ mpc = "raising"
    /\ Joined(tpc)
    /\ mpc' = "crashed"
    /\ UNCHANGED <<max_workers, now, installed, cacheVars, taskVars, packages,
                   package_info, menu_items, selected_package, versions,
                   budget, enrichStart, lastReturn, enumerated, enriched,
                   menuVars>>

\* ------------------------------------------------------------------- shell
\* The effect of a pip command that succeeds on the installed distributions.
PipInstall(inst, package_name, version) ==
    [k \in 1..Len(inst) |->
        IF inst[k].name = package_name
        THEN [name |-> package_name, version |-> version]
        ELSE inst[k]]
PipUninstall(inst, package_name) ==
    SelectSeq(inst, LAMBDA p : p.name # package_name)

\* The row that stands for a menu that was dismissed (show() gave None).
Dismissed == "<dismissed>"

\* main, lines 258-263: where the loop goes from the main menu.
MainMenuNextIgnoreNone(items, choice_index) ==
    IF choice_index = None THEN "main_menu"
    ELSE IF items[choice_index[1] + 1] = QuitRow THEN "quit"
    ELSE "package_options"
MainMenuNext(items, choice_index) ==
    IF choice_index = None THEN "quit"
    ELSE IF items[choice_index[1] + 1] = QuitRow THEN "quit"
    ELSE "package_options"

\* main, line 262: the package of the selected row.
SelectedPackageNext(pkgs, index) ==
    pkgs[IF index + 2 <= Len(pkgs) THEN index + 2 ELSE 1].name
SelectedPackage(pkgs, index) == pkgs[index + 1].name

\* main, lines 256-262: the main menu.  The locals of this iteration
\* (the snapshot, the results of the pool, the rows) are not read again
\* before the next iteration assigns them, and the history of the batch
\* ends with them.
MainMenu ==
    /\ mpc = "main_menu"
    /\ \E choice_index \in {None} \cup {Some(k) : k \in 0..(Len(menu_items) - 1)} :
         /\ mpc' = MainMenuNext(menu_items, choice_index)
         /\ picked' = Pick("main", IF choice_index = None THEN Dismissed
                                    ELSE menu_items[choice_index[1] + 1].name)
         /\ IF mpc' = "package_options"
            THEN selected_package' = SelectedPackage(packages, choice_index[1])
            ELSE UNCHANGED selected_package
    /\ packages' = <<>> /\ package_info' = <<>> /\ menu_items' = <<>>
    /\ tpc' = <<>> /\ pypi_info' = <<>> /\ iter' = <<>> /\ buf' = <<>>
    /\ results' = <<>> /\ completed' = <<>> /\ outcome' = <<>>
    /\ calls' = {} /\ validAtGet' = {} /\ exits' = {} /\ enrichStart' = 0
    /\ failed' = "none" /\ acked' = FALSE
    /\ UNCHANGED <<max_workers, now, installed, cacheVars, versions, budget,
                   lastReturn, enumerated, enriched, pip>>

\* main, lines 263-264: where the loop goes when package_options returned r.
AfterOptionsKeepMenu(r) == "main_menu"
AfterOptions(r) == "loop"

\* package_options returns r.
Return(r) ==
    /\ lastReturn' = IF r THEN "success" ELSE "back"
    /\ enumerated' = FALSE
    /\ enriched' = FALSE
    /\ mpc' = AfterOptions(r)

options == <<"Upgrade", "Downgrade", "Uninstall", "Back">>

\* The label of the row selected in a menu with the given rows.
Label(rows, choice_index) ==
    IF choice_index = None THEN Dismissed ELSE rows[choice_index[1] + 1]

\* package_options, lines 219-222: Back, or the menu was dismissed.
OptionsBack ==
    /\ mpc = "package_options"
    /\ \E choice_index \in {None} \cup {Some(k) : k \in 0..(Len(options) - 1)} :
         /\ Label(options, choice_index) \in {Dismissed, "Back"}
         /\ picked' = Pick("options", Label(options, choice_index))
    /\ failed' = "none" /\ acked' = FALSE
    /\ Return(FALSE)
    /\ UNCHANGED <<max_workers, now, installed, cacheVars, taskVars, packages,
                   package_info, menu_items, selected_package, versions,
                   budget, enrichStart, pip>>

\* An installer subprocess is started: subprocess.check_call at lines 129
\* and 194, subprocess.run at line 173.
Start(cmd, package_name, version) ==
    /\ pip' = pip \cup {[cmd |-> cmd, package |-> package_name,
                         version |-> version]}
    /\ mpc' = "pip"
    /\ failed' = "none" /\ acked' = FALSE

\* package_options, line 225 and upgrade_package, line 129.
OptionsUpgrade ==
    /\ mpc = "package_options"
    /\ picked' = Pick("options", "Upgrade")
    /\ Start("upgrade", selected_package, "")
    /\ UNCHANGED <<max_workers, now, installed, cacheVars, taskVars, packages,
                   package_info, menu_items, selected_package, versions,
                   budget, enrichStart, lastReturn, enumerated, enriched>>

\* package_options, line 229 and uninstall_package, line 194.
OptionsUninstall ==
    /\ mpc = "package_options"
    /\ picked' = Pick("options", "Uninstall")
    /\ Start("uninstall", selected_package, "")
    /\ UNCHANGED <<max_workers, now, installed, cacheVars, taskVars, packages,
                   package_info, menu_items, selected_package, versions,
                   budget, enrichStart, lastReturn, enumerated, enriched>>

\* downgrade_package, line 142: the versions come from the cache, or from
\* the registry command when the cache has no fresh entry; the cache is
\* not written.
downgrade_lookupStore(c, package_name, ok, t) ==
    LET cached == get(c, package_name, t)
        live   == get_pypi_info(package_name, ok)
    IN  IF cached # None THEN [info |-> cached, cache |-> c]
        ELSE IF live # None
        THEN [info |-> live,
              cache |-> DictSet(c, package_name, Stamp(live[1], t))]
        ELSE [info |-> None, cache |-> c]
downgrade_lookup(c, package_name, ok, t) ==
    LET cached == get(c, package_name, t)
    IN  [info  |-> IF cached # None THEN cached
                   ELSE get_pypi_info(package_name, ok),
         cache |-> c]

\* package_options, line 227 and downgrade_package, lines 141-157.
OptionsDowngrade ==
    /\ mpc = "package_options"
    /\ picked' = Pick("options", "Downgrade")
    /\ \E ok \in BOOLEAN :
         LET found == downgrade_lookup(cache, selected_package, ok, now)
         IN  /\ cache' = found.cache
             /\ IF found.info = None
                THEN /\ failed' = "no_versions"
                     /\ mpc' = "ack_options"
                     /\ UNCHANGED versions
                ELSE /\ versions' = <<"Back">> \o found.info[1].all_versions
                     /\ failed' = "none"
                     /\ mpc' = "downgrade"
    /\ acked' = FALSE
    /\ UNCHANGED <<max_workers, now, installed, file, stamped, taskVars,
                   packages, package_info, menu_items, selected_package,
                   budget, enrichStart, lastReturn, enumerated, enriched, pip>>

\* downgrade_package, lines 159-163: Back, or the menu was dismissed;
\* downgrade_package returns False and the loop of package_options goes on.
VersionBack ==
    /\ mpc = "downgrade"
    /\ \E choice_index \in {None} \cup {Some(k) : k \in 0..(Len(versions) - 1)} :
         /\ Label(versions, choice_index) \in {Dismissed, "Back"}
         /\ picked' = Pick("versions", Label(versions, choice_index))
    /\ mpc' = "package_options"
    /\ versions' = <<>>
    /\ failed' = "version_back" /\ acked' = FALSE
    /\ UNCHANGED <<max_workers, now, installed, cacheVars, taskVars, packages,
                   package_info, menu_items, selected_package, budget,
                   enrichStart, lastReturn, enumerated, enriched, pip>>

\* downgrade_package, line 165: the version of the selected row.
ChosenVersionNext(rows, index) ==
    rows[IF index + 2 <= Len(rows) THEN index + 2 ELSE index + 1]
ChosenVersion(rows, index) == rows[index + 1]

\* downgrade_package, lines 165-166 and install_specific_version, line 173.
VersionInstall ==
    /\ mpc = "downgrade"
    /\ \E k \in 0..(Len(versions) - 1) :
         /\ versions[k + 1] # "Back"
         /\ picked' = Pick("versions", versions[k + 1])
         /\ Start("install", selected_package, ChosenVersion(versions, k))
    /\ UNCHANGED <<max_workers, now, installed, cacheVars, taskVars, packages,
                   package_info, menu_items, selected_package, versions,
                   budget, enrichStart, lastReturn, enumerated, enriched>>

\* Where the user is asked to press Enter after the command cmd failed:
\* in install_specific_version (line 188), or in upgrade_package (line 136)
\* and uninstall_package (line 201).
AckOf(cmd) == IF cmd = "install" THEN "ack_version" ELSE "ack_options"

\* The installer subprocess exits.  With status 0 the operation returns True
\* and so does package_options (lines 132, 181, 197; 167; 226-230);
\* otherwise CalledProcessError is caught and the user is asked to press
\* Enter.
PipExit ==
    /\ mpc = "pip"
    /\ \E p \in pip, ok \in BOOLEAN :
         /\ pip' = pip \ {p}
         /\ IF ok
            THEN /\ installed' =
                      IF p.cmd = "uninstall"
                      THEN PipUninstall(installed, p.package)
                      ELSE IF p.cmd = "upgrade"
                      THEN PipInstall(installed, p.package,
                                      AvailableVersions(p.package)[1])
                      ELSE PipInstall(installed, p.package, p.version)
                 /\ versions' = <<>>
                 /\ Return(TRUE)
                 /\ UNCHANGED failed
            ELSE /\ failed' = p.cmd
                 /\ mpc' = AckOf(p.cmd)
                 /\ UNCHANGED <<installed, versions, lastReturn, enumerated,
                                enriched>>
    /\ picked' = NoPick
    /\ UNCHANGED <<max_workers, now, cacheVars, taskVars, packages,
                   package_info, menu_items, selected_package, budget,
                   enrichStart, acked>>

\* Where control goes when the user pressed Enter at position pc: the
\* operation returns False and the loop of its caller goes on (lines 137,
\* 147, 202 and 212; lines 189 and 159).
AfterAckReturn(pc) == IF pc = "ack_version" THEN "downgrade" ELSE "loop"
AfterAck(pc) == IF pc = "ack_version" THEN "downgrade" ELSE "package_options"

\* input("Press Enter to continue...") returns: lines 136, 146, 188, 201.
Acknowledge ==
    /\ mpc \in {"ack_options", "ack_version"}
    /\ acked' = TRUE
    /\ mpc' = AfterAck(mpc)
    /\ picked' = NoPick
    /\ UNCHANGED <<max_workers, now, installed, cacheVars, taskVars, packages,
                   package_info, menu_items, selected_package, versions,
                   budget, enrichStart, lastReturn, enumerated, enriched, pip,
                   failed>>

Next ==
    \/ Tick
    \/ Enumerate
    \/ \E i \in Tasks : CacheGet(i)
    \/ \E i \in Tasks : Fetch(i)
    \/ \E i \in Tasks : CacheSet(i)
    \/ \E i \in Tasks : SaveOpen(i)
    \/ \E i \in Tasks : SaveStep(i)
    \/ Join
    \/ Abort
    \/ Crash
    \/ MainMenu
    \/ OptionsBack
    \/ OptionsUpgrade
    \/ OptionsUninstall
    \/ OptionsDowngrade
    \/ VersionBack
    \/ VersionInstall
    \/ PipExit
    \/ Acknowledge

Spec == Init /\ [][Next]_vars

\* ------------------------------------------------------------------ claims
\* The calls that are inside PackageCache.set: past lines 62-63, before the
\* return of save.
InSet == {i \in Tasks : tpc[i] \in {"open", "dump"}}
\* enrich has returned: display_packages is past line 104 and the main
\* menu is shown.
EnrichReturned == mpc = "main_menu"
NameOf(i) == packages[i].name

\* C1: during a batch, at most one call of the pool is inside
\* PackageCache.set / save at any time.
C1_SetsSerialized == Cardinality(InSet) <= 1

\* C2: at every time, get(name) returns the stored entry exactly when the
\* name was set (by this run or the run that left the file) and less than
\* CACHE_EXPIRY has passed since; an entry set at T0 is returned at
\* T0 + 30 min and is not returned at T0 + 90 min.
C2_GetIffFresh ==
    \A name \in Names :
        LET r == get(cache, name, now)
            fresh == stamped[name] # None /\ now - stamped[name][1] < CACHE_EXPIRY
        IN  /\ (r # None) <=> fresh
            /\ r # None => r[1] = DictGet(cache, name)
            /\ (stamped[name] # None /\ now = stamped[name][1] + 1) => r # None
            /\ (stamped[name] # None /\ now = stamped[name][1] + 3) => r = None
\* A call of the pool found an entry that is exactly CACHE_EXPIRY old and
\* treated it as absent.
C2_Witness ==
    \E i \in Tasks :
        /\ tpc[i] = "fetch"
        /\ NameOf(i) \in Keys(cache)
        /\ stamped[NameOf(i)] # None
        /\ now - stamped[NameOf(i)][1] = CACHE_EXPIRY

\* C3: a call that finds a fresh entry for its package when it reads the
\* cache never runs the registry command; its result carries the cached
\* latest version.
C3_NoRegistryCallOnHit ==
    \A i \in Tasks :
        i \in validAtGet =>
            /\ i \notin calls
            /\ tpc[i] = "done"
            /\ outcome[i] = "hit"
            /\ results[i][1].latest =
                 Some(DictGet(cache, NameOf(i)).latest_version)
C3_Witness ==
    \E i \in Tasks : i \in validAtGet /\ tpc[i] = "done" /\ calls # {}

C5_InputOrder ==
    EnrichReturned =>
        /\ Len(package_info) = Len(packages)
        /\ \A k \in 1..Len(packages) :
             /\ package_info[k].name = packages[k].name
             /\ package_info[k].installed = packages[k].version
\* enrich returned and the call of the first package was the last one to
\* complete, after the calls of all the packages that follow it.
C5_Witness ==
    /\ EnrichReturned
    /\ Len(packages) = NumPackages
    /\ completed[Len(completed)] = 1
    /\ \A k \in 1..(Len(completed) - 1) : completed[k] = k + 1

C7_FileEqualsCache ==
    InSet = {} =>
        /\ file.exists => WellFormed(file.data)
        /\ load(file) = cache

\* C8: when a set completes, a new PackageCache loaded from the file has
\* an entry for the name with the latest_version and all_versions that
\* were set, and get reports it as valid at the time of the set.
C8_RoundTrip ==
    [][\A i \in Tasks :
         (tpc[i] = "dump" /\ tpc'[i] = "done") =>
            /\ WellFormed(file'.data)
            /\ LET reloaded == load(file')
                   name == NameOf(i)
               IN  /\ name \in Keys(reloaded)
                   /\ DictGet(reloaded, name).latest_version
                        = pypi_info[i][1].latest_version
                   /\ DictGet(reloaded, name).all_versions
                        = pypi_info[i][1].all_versions
                   /\ get(reloaded, name, stamped[name][1]) # None]_vars
\* A set has completed and the file holds its entry, next to another one.
C8_Witness ==
    \E i \in Tasks :
        /\ outcome[i] = "fetched"
        /\ file.exists /\ WellFormed(file.data)
        /\ NameOf(i) \in Keys(load(file))
        /\ Len(load(file)) >= 2

\* C9: after package_options returned through Back (or dismissal), the
\* installed packages are not enumerated again and the pool is not run
\* again.
C9_BackDoesNotRefresh == lastReturn = "back" => ~enumerated /\ ~enriched

\* C10: when the main menu is shown after an action of package_options
\* succeeded, the installed packages have been enumerated again and the
\* pool has been run again since.
C10_SuccessRefreshes ==
    (mpc = "main_menu" /\ lastReturn = "success") =>
        /\ enumerated
        /\ enriched
        /\ packages = installed
        /\ Len(package_info) = Len(installed)
C10_Witness ==
    /\ mpc = "main_menu"
    /\ lastReturn = "success"
    /\ installed # InitialInstalled(ShellPackages)

\* The positions of the shell inside package_options for one package.
ActionMenu == {"package_options", "ack_options", "downgrade", "ack_version",
               "pip"}

\* C11: when upgrade_package, uninstall_package or downgrade_package
\* returned False, the shell is still in package_options for the same
\* package: the action menu is shown again and neither the main menu nor
\* the refresh is reached before the next selection; and after a failed
\* upgrade, uninstall or install of a version the user has pressed Enter
\* before a menu is shown again.
C11_FailureStaysInActionMenu ==
    [][/\ failed' \in {"upgrade", "uninstall", "no_versions", "version_back"}
            => /\ mpc' \in {"ack_options", "package_options"}
               /\ selected_package' = selected_package
       /\ (failed' \in {"upgrade", "uninstall", "install"}
           /\ mpc' \in {"package_options", "downgrade"}) => acked']_vars
C11_Witness ==
    /\ mpc = "package_options"
    /\ failed \in {"upgrade", "uninstall"}
    /\ acked

\* The shell is inside downgrade_package: at the version menu, in the
\* installer it started, or at one of its two Enter prompts.
InDowngrade ==
    \/ mpc \in {"downgrade", "ack_version"}
    \/ mpc = "pip" /\ \E p \in pip : p.cmd = "install"
    \/ mpc = "ack_options" /\ failed = "no_versions"
InDowngradeNext ==
    \/ mpc' \in {"downgrade", "ack_version"}
    \/ mpc' = "pip" /\ \E p \in pip' : p.cmd = "install"
    \/ mpc' = "ack_options" /\ failed' = "no_versions"

\* A row of the version menu is selected, or the menu is dismissed.
VersionSelection ==
    /\ mpc = "downgrade"
    /\ picked' # picked
    /\ picked'.menu = "versions"

\* downgrade_package returns False from the version menu.
ReturnsOnBack ==
    /\ VersionSelection
    /\ picked'.label \in {Dismissed, "Back"}
    /\ mpc' = "package_options"
    /\ failed' = "version_back"
    /\ pip' = {}
    /\ installed' = installed

\* downgrade_package returns True: the installer it started has succeeded.
ReturnsOnSuccess ==
    /\ mpc = "pip"
    /\ mpc' = "loop"
    /\ lastReturn' = "success"
    /\ \E p \in pip :
         /\ p.cmd = "install"
         /\ \E k \in 1..Len(installed') :
              installed'[k] = [name |-> p.package, version |-> p.version]

\* downgrade_package returns False before any version menu: no version
\* information, and the user has pressed Enter.
ReturnsOnNoVersions ==
    /\ mpc = "ack_options"
    /\ failed = "no_versions"
    /\ acked'
    /\ mpc' = "package_options"
    /\ pip' = {}
    /\ installed' = installed

\* What C12 says about the version menu itself.
VersionMenuSteps ==
    /\ (VersionSelection /\ picked'.label \in {Dismissed, "Back"}) =>
          ReturnsOnBack
    /\ (VersionSelection /\ picked'.label \notin {Dismissed, "Back"}) =>
          /\ mpc' = "pip"
          /\ pip' = {[cmd |-> "install", package |-> selected_package,
                      version |-> picked'.label]}
    /\ (mpc = "pip" /\ failed' = "install") =>
          /\ mpc' = "ack_version"
          /\ versions' = versions
    /\ (mpc = "ack_version" /\ mpc' # mpc) =>
          /\ mpc' = "downgrade"
          /\ versions' = versions
    /\ (lastReturn' = "success" /\ InDowngrade /\ mpc' = "loop") =>
          ReturnsOnSuccess

\* C12 as stated: Back or dismissal of the version menu returns False
\* without starting the installer; a selected version starts the installer
\* for exactly that version, and after its failure the version menu is
\* shown again; downgrade_package returns True only after the installer
\* succeeded, and it returns only on success, Back or dismissal.
C12_ReturnsOnlyOnSuccessOrBack ==
    [][/\ VersionMenuSteps
       /\ (InDowngrade /\ ~InDowngradeNext) =>
             ReturnsOnBack \/ ReturnsOnSuccess]_vars

\* C12, amended: as above, but downgrade_package also returns False, after
\* the Enter prompt and without starting the installer, when there is no
\* version information for the package.
C12_DowngradeFlow ==
    [][/\ VersionMenuSteps
       /\ (InDowngrade /\ ~InDowngradeNext) =>
             ReturnsOnBack \/ ReturnsOnSuccess \/ ReturnsOnNoVersions]_vars
C12_Witness ==
    /\ mpc = "downgrade"
    /\ failed = "install"
    /\ acked
    /\ Len(versions) = 1 + Len(AvailableVersions(selected_package))

\* A row of the main menu, or of the menu of package_options, is selected,
\* or that menu is dismissed.
MainSelection ==
    /\ mpc = "main_menu"
    /\ picked' # picked
    /\ picked'.menu = "main"
OptionsSelection ==
    /\ mpc = "package_options"
    /\ picked' # picked
    /\ picked'.menu = "options"

\* C13: dismissing a menu does what its Quit or Back row does and is never
\* an error: at the main menu the program ends, at the menu of
\* package_options the shell goes back to the main loop with False, at the
\* version menu downgrade_package returns False; and once the program has
\* ended after Quit or a dismissal it stays ended.
C13_DismissIsBack ==
    [][/\ (MainSelection /\ picked'.label \in {Dismissed, "Quit"}) =>
             /\ mpc' = "quit"
             /\ UNCHANGED <<installed, cache, file, lastReturn, pip>>
       /\ (OptionsSelection /\ picked'.label \in {Dismissed, "Back"}) =>
             /\ mpc' = AfterOptions(FALSE)
             /\ lastReturn' = "back"
             /\ UNCHANGED <<installed, cache, file, selected_package, pip>>
       /\ (VersionSelection /\ picked'.label \in {Dismissed, "Back"}) =>
             /\ ReturnsOnBack
             /\ UNCHANGED <<cache, file, lastReturn, selected_package>>
       /\ (picked' # picked /\ picked'.label = Dismissed) =>
             mpc' \notin {"crashed", "raising"}
       /\ mpc = "quit" => mpc' = "quit"]_vars
C13_Witness ==
    /\ mpc = "quit"
    /\ picked = Pick("main", Dismissed)
    /\ lastReturn = "back"

\* C14: at most one installer subprocess runs at a time, and none runs
\* while a call of the pool is running; display_packages returns, or
\* raises, only when no call of the pool is running, so that no registry
\* command and no set is in progress while a menu is shown.
C14_InstallersSequential ==
    /\ Cardinality(pip) <= 1
    /\ pip # {} => (mpc = "pip" /\ RunningTasks = {})
    /\ mpc \notin {"enrich", "raising"} => RunningTasks = {}
C14_Witness ==
    /\ mpc = "pip"
    /\ Cardinality(pip) = 1
    /\ lastReturn = "success"

\* C15 is not given a formula: get is the operator get(c, package_name, t),
\* and two evaluations of it on the same mapping at the same time agree by
\* definition.

\* self.cache.get(name) of a dict: the entry of the name, or None.
EntryOf(c, name) == IF name \in Keys(c) THEN Some(DictGet(c, name)) ELSE None

\* C16: when the registry command for a package exits with a failure,
\* get_package_info ends there: the call never reaches set, the step
\* leaves the mapping and the file as they are (an expired entry of the
\* package stays), the result of the package has no latest version, and
\* no later step of the batch writes the entry of the package or the file
\* on behalf of that call.
C16_NoDataNoSet ==
    [][/\ <<exits, tpc>>' # <<exits, tpc>> =>
             \A i \in exits' :
                 /\ tpc'[i] = "done"
                 /\ outcome'[i] = "failed"
                 /\ results'[i][1].latest = None
                 /\ i \notin exits => UNCHANGED <<cache, file, stamped>>
       /\ cache' # cache =>
             \A name \in Names :
                 EntryOf(cache', name) # EntryOf(cache, name) =>
                     \E i \in Tasks \ exits :
                         packages[i].name = name /\ tpc[i] = "set"
       /\ file' # file =>
             \E i \in Tasks \ exits : tpc[i] \in {"open", "dump"}]_vars
C16_Witness ==
    \E i \in exits :
        /\ tpc[i] = "done"
        /\ results[i][1].latest = None
        /\ EntryOf(cache, packages[i].name) = Some(EarlierInfo)
        /\ load(file) = load(EarlierFile)

Expired(c, name, t) ==
    /\ name \in Keys(c)
    /\ t - fromisoformat(DictGet(c, name).timestamp) >= CACHE_EXPIRY

\* C18: no step removes a key from the mapping, and an entry of the
\* mapping changes only in the step of a set for its name; when time has
\* passed, an entry that is expired is still in the mapping and get
\* reports it as absent; and
\* whenever a step that ends a save or writes the mapping or the file
\* leaves no save in progress, the file has exactly the keys of the
\* mapping, so it has lost none, and it still holds the entry left by the
\* earlier run for as long as the mapping holds it.
C18_KeysNeverRemoved ==
    [][/\ cache' # cache =>
             /\ Keys(cache) \subseteq Keys(cache')
             /\ \A name \in Keys(cache) :
                   EntryOf(cache', name) # EntryOf(cache, name) =>
                       \E i \in Tasks :
                           /\ packages[i].name = name
                           /\ tpc[i] = "set"
                           /\ tpc'[i] = "open"
       /\ now' # now =>
             \A name \in Keys(cache') :
                 Expired(cache', name, now') => get(cache', name, now') = None
       /\ (InSet' = {} /\ (InSet # {} \/ <<cache, file>>' # <<cache, file>>)) =>
             /\ Keys(load(file')) = Keys(cache')
             /\ \A name \in Keys(cache') :
                   EntryOf(cache', name) = Some(EarlierInfo) =>
                       EntryOf(load(file'), name) = Some(EarlierInfo)]_vars
C18_Witness ==
    /\ InSet = {}
    /\ Expired(cache, AllNames[1], now)
    /\ EntryOf(cache, AllNames[1]) = Some(EarlierInfo)
    /\ EntryOf(load(file), AllNames[1]) = Some(EarlierInfo)
    /\ Len(cache) = 2
    /\ Len(load(file)) = 2

\* C19: no step of upgrade_package, downgrade_package,
\* install_specific_version or uninstall_package, successful or not,
\* changes the mapping or the file: the versions that downgrade_package
\* fetches from the registry on a cache miss are not stored, and a
\* successful upgrade, install or uninstall leaves the entry of the
\* package as it was.
C19_ActionsLeaveCache ==
    [][/\ mpc \in ActionMenu => UNCHANGED <<cache, file>>
       /\ (OptionsSelection /\ picked'.label = "Downgrade") =>
             /\ EntryOf(cache', selected_package) =
                   EntryOf(cache, selected_package)
             /\ file' = file
       /\ (mpc = "pip" /\ installed' # installed) =>
             \A p \in pip :
                 /\ EntryOf(cache', p.package) = EntryOf(cache, p.package)
                 /\ file' = file]_vars
C19_Witness ==
    /\ mpc = "downgrade"
    /\ selected_package \notin Keys(cache)
    /\ Len(versions) > 1
    /\ ~file.exists

\* C20: whenever the main menu is shown it has one row for each installed
\* package, in the order of the enumeration of that iteration, and then
\* the one Quit row; and selecting a row other than Quit opens
\* package_options for the package whose name that row shows, which is a
\* package of the snapshot of that iteration.
C20_RowsMatchPackages ==
    [][/\ mpc = "main_menu" =>
             /\ packages = installed
             /\ Len(menu_items) = Len(packages) + 1
             /\ \A k \in 1..Len(packages) :
                   /\ menu_items[k] # QuitRow
                   /\ menu_items[k].name = packages[k].name
                   /\ menu_items[k].installed = packages[k].version
             /\ menu_items[Len(menu_items)] = QuitRow
       /\ (MainSelection /\ picked'.label \notin {Dismissed, "Quit"}) =>
             /\ mpc' = "package_options"
             /\ selected_package' = picked'.label
             /\ \E k \in 1..Len(packages) :
                   packages[k].name = selected_package']_vars
C20_Witness ==
    /\ mpc = "package_options"
    /\ Len(installed) = 2
    /\ selected_package = installed[2].name
    /\ picked = Pick("main", selected_package)

====
